---- MODULE Spec2Model ----
(***************************************************************************)
(* Model of src/components/workspace/Workspace.js: the Workspace component *)
(* that posts compile requests to the module-level babel worker, caches    *)
(* the compiled code per variant, runs the player when every file has been *)
(* transformed, and tracks compiler / runtime errors.                      *)
(*                                                                         *)
(* Strings that the code inspects character by character (filenames) are   *)
(* sequences of one-character strings. Source texts are opaque strings.    *)
(* Compiled code is a sequence of strings; the empty sequence is the empty *)
(* JavaScript string.                                                      *)
(***************************************************************************)
EXTENDS Integers, Sequences, FiniteSets, TLC

VARIABLES
  props,            \* this.props after defaultProps: files, entry, initialTab, panes
  listening,        \* onBabelWorkerMessage is a registered listener of babelWorker
  mounted,          \* componentDidMount has run and componentWillUnmount has not
  compilerError,    \* this.state.compilerError
  runtimeError,     \* this.state.runtimeError
  showDetails,      \* this.state.showDetails
  activeTab,        \* this.state.activeTab
  transpilerCache,  \* this.state.transpilerCache
  codeCache,        \* this.codeCache
  playerCache,      \* this.playerCache
  inflight,         \* messages posted to babelWorker and not yet answered, in posting order
  sandbox,          \* the PlayerFrame: "idle", "requested", "running"
  thrown,           \* a handler ended with an uncaught TypeError
  last,             \* what the latest handler did: the worker message it handled and
                    \* the player.runApplication call it made, if any
  name,             \* filename under test in the filename-encoding specification
  key,              \* its encoding
  decoded,          \* the decoding of key
  phase,            \* "name", "encoded" or "decoded"
  peer              \* a second Workspace on the same page, listening to the same
                    \* module-level babelWorker: its caches and status

vars == <<props, listening, mounted, compilerError, runtimeError, showDetails,
          activeTab, transpilerCache, codeCache, playerCache, inflight, sandbox,
          thrown, last, name, key, decoded, phase, peer>>

workspaceVars == <<props, listening, mounted, compilerError, runtimeError, showDetails,
                   activeTab, transpilerCache, codeCache, playerCache, inflight, sandbox,
                   thrown, last, peer>>

codecVars == <<name, key, decoded, phase>>

(***************************************************************************)
(* Bounds                                                                  *)
(***************************************************************************)
\* Edits are accepted while at most this many requests are unanswered.
MaxInFlight == 2

\* Longest base filename of the filename-encoding specification.
MaxNameLen == 2

(***************************************************************************)
(* Strings                                                                 *)
(***************************************************************************)
\* String.prototype.indexOf: zero-based index of the first occurrence, else -1
indexOf(s, p) ==
  LET hits == {i \in 0..(Len(s) - Len(p)) : SubSeq(s, i + 1, i + Len(p)) = p}
  IN  IF hits = {} THEN -1 ELSE CHOOSE i \in hits : \A j \in hits : i <= j

transpilerPrefix == <<"@", "b", "a", "b", "e", "l", "-">>

getTranspilerIdAppends(filename) == filename \o transpilerPrefix

getTranspilerId(filename) == transpilerPrefix \o filename

isTranspilerIdPastStart(filename) == indexOf(filename, transpilerPrefix) > 0

isTranspilerId(filename) == indexOf(filename, transpilerPrefix) = 0

\* The decoding the wire contract describes: strip that exact prefix.
stripTranspilerPrefix(id) ==
  IF isTranspilerId(id) THEN SubSeq(id, Len(transpilerPrefix) + 1, Len(id)) ELSE id

(***************************************************************************)
(* Values                                                                  *)
(***************************************************************************)
Null == [null |-> TRUE]

\* utils/ErrorMessage: the details parsed from a message
getErrorDetails(message) == [summary |-> message, description |-> message]

IndexJs == <<"i", "n", "d", "e", "x", ".", "j", "s">>
AJs == <<"a", ".", "j", "s">>
BJs == <<"b", ".", "j", "s">>
Constructor == <<"c", "o", "n", "s", "t", "r", "u", "c", "t", "o", "r">>

\* Properties every object literal inherits from Object.prototype.
ObjectPrototypeKeys == {Constructor}

\* Source texts: the empty file, two programs and one that does not compile.
SourceTexts == {"", "v1", "v2", "bad"}

\* The texts the editor is changed to.
EditedTexts == {"", "v2", "bad"}

\* static defaultProps; keys is Object.keys(files), the insertion order of files
defaultProps ==
  [files |-> (IndexJs :> ""), keys |-> <<IndexJs>>, entry |-> IndexJs,
   initialTab |-> IndexJs, panes |-> {}]

\* The props the component is constructed with (defaults merged in).
Configurations ==
  { [defaultProps EXCEPT !.panes = {"editor", "player"}],
    [defaultProps EXCEPT !.files = (AJs :> "v1" @@ BJs :> "v1"), !.keys = <<AJs, BJs>>,
                         !.entry = AJs, !.initialTab = AJs,
                         !.panes = {"editor", "player"}],
    [defaultProps EXCEPT !.files = (AJs :> "v1"), !.keys = <<AJs>>,
                         !.panes = {"editor", "transpiler", "player"}],
    [defaultProps EXCEPT !.files = (AJs :> "v1" @@ getTranspilerId(AJs) :> "v2"),
                         !.keys = <<AJs, getTranspilerId(AJs)>>,
                         !.entry = AJs, !.initialTab = AJs,
                         !.panes = {"transpiler", "player"}],
    [defaultProps EXCEPT !.files = (AJs :> "v1" @@ Constructor :> "v1"),
                         !.keys = <<AJs, Constructor>>,
                         !.entry = AJs, !.initialTab = AJs,
                         !.panes = {"player"}],
    [defaultProps EXCEPT !.files = (AJs :> "v1"), !.keys = <<AJs>>,
                         !.entry = AJs, !.initialTab = AJs,
                         !.panes = {"editor", "transpiler"}] }

EmptyObject == <<>>

SetPropertyIfAbsent(obj, k, v) == obj @@ (k :> v)

\* obj[k] = v on a plain object
SetProperty(obj, k, v) == (k :> v) @@ obj

\* Truthiness of obj[k] on a plain object holding strings
Truthy(obj, k) ==
  IF k \in DOMAIN obj THEN obj[k] # <<>> ELSE k \in ObjectPrototypeKeys

RemoveAt(s, i) == SubSeq(s, 1, i - 1) \o SubSeq(s, i + 1, Len(s))

(***************************************************************************)
(* The babel worker and the player frame (collaborators)                   *)
(***************************************************************************)
\* The worker's reply to one request: {filename, type, code | error}.
babelTransform(request) ==
  [filename |-> request.filename,
   type |-> IF request.code = "bad" THEN "error" ELSE "code",
   code |-> IF request.code \in {"", "bad"} THEN <<>>
            ELSE IF request.retainLines THEN <<request.code, "retainLines">>
            ELSE <<request.code>>,
   error |-> [message |-> IF request.code = "bad" THEN "SyntaxError" ELSE ""]]

\* No message. Besides the fields of the message, a request records which
\* postMessage call sent it: the player's ("Execution") or the transpiler's
\* ("Preview"), and which component made the call ("this" or "peer").
NoRequest ==
  [filename |-> <<>>, code |-> "", retainLines |-> FALSE, variant |-> "none",
   instance |-> "none"]

\* The latest handler: op is "onBabelWorkerMessage" with the request answered and
\* the worker's response, "runApplication", "dropped" or "none"; ran tells that the
\* handler called player.runApplication(compiledMap, entry).
Event(op, request) ==
  [op |-> op, request |-> request, response |-> babelTransform(request),
   ran |-> FALSE, compiledMap |-> <<>>, entry |-> <<>>]

NoEvent == Event("none", NoRequest)

(***************************************************************************)
(* The component                                                           *)
(***************************************************************************)
playerVisible == "player" \in props.panes
transpilerVisible == "transpiler" \in props.panes
editorVisible == "editor" \in props.panes

(***************************************************************************)
(* A second component on the page. babelWorker is created once per module  *)
(* (line 17), so every component's listener hears every reply.             *)
(***************************************************************************)
\* The props of the second component.
PeerProps ==
  [defaultProps EXCEPT !.files = (AJs :> "v2"), !.keys = <<AJs>>, !.entry = AJs,
                       !.initialTab = AJs, !.panes = {"player"}]

\* No second component on the page.
NoPeer ==
  [listening |-> FALSE, mounted |-> FALSE, compilerError |-> Null,
   showDetails |-> FALSE, transpilerCache |-> EmptyObject, playerCache |-> EmptyObject,
   ran |-> FALSE, thrown |-> FALSE]

\* The second component's constructor
PeerConstructed == [NoPeer EXCEPT !.listening = TRUE]

\* The second component's updateStatus(type, error)
PeerUpdateStatus(p, data) ==
  CASE data.type = "code" -> [p EXCEPT !.compilerError = Null, !.showDetails = FALSE]
    [] data.type = "error" ->
         [p EXCEPT !.compilerError = getErrorDetails(data.error.message)]
    [] OTHER -> p

\* The second component's onBabelWorkerMessage({data}); ran tells that it called
\* its player's runApplication, thrown that this.refs.player was undefined
PeerOnBabelWorkerMessage(p, data) ==
  LET q == [PeerUpdateStatus(p, data) EXCEPT !.ran = FALSE]
      cache == SetProperty(p.playerCache, data.filename, data.code)
      every == \A filename \in DOMAIN PeerProps.files : Truthy(cache, filename)
  IN  IF data.type = "code"
        THEN IF isTranspilerId(data.filename)
               THEN [q EXCEPT !.transpilerCache =
                                SetProperty(p.transpilerCache, data.filename, data.code)]
               ELSE [q EXCEPT !.playerCache = cache,
                              !.ran = every /\ p.mounted,
                              !.thrown = p.thrown \/ (every /\ ~p.mounted)]
        ELSE q

\* A reply of the worker, as the second component's listener hears it
PeerHears(p, data) ==
  IF p.listening THEN PeerOnBabelWorkerMessage(p, data) ELSE p

\* constructor(props)
constructor(p) ==
  /\ props = p
  /\ listening = TRUE
  /\ mounted = FALSE
  /\ compilerError = Null
  /\ runtimeError = Null
  /\ showDetails = FALSE
  /\ activeTab = p.initialTab
  /\ transpilerCache = EmptyObject
  /\ codeCache = EmptyObject
  /\ playerCache = EmptyObject
  /\ inflight = <<>>
  /\ sandbox = "idle"
  /\ thrown = FALSE
  /\ last = NoEvent

Init ==
  /\ \E p \in Configurations : constructor(p)
  /\ peer = NoPeer
  /\ name = <<>>
  /\ key = <<>>
  /\ decoded = <<>>
  /\ phase = "name"

RequestsRetainLinesInBoth(filename, code) ==
  (IF playerVisible
     THEN <<[filename |-> filename, code |-> code, retainLines |-> TRUE,
             variant |-> "Execution", instance |-> "this"]>>
     ELSE <<>>)
  \o
  (IF transpilerVisible
     THEN <<[filename |-> getTranspilerId(filename), code |-> code,
             retainLines |-> TRUE, variant |-> "Preview", instance |-> "this"]>>
     ELSE <<>>)

\* The messages one file posts: the player's request, then the transpiler's.
Requests(filename, code) ==
  (IF playerVisible
     THEN <<[filename |-> filename, code |-> code, retainLines |-> TRUE,
             variant |-> "Execution", instance |-> "this"]>>
     ELSE <<>>)
  \o
  (IF transpilerVisible
     THEN <<[filename |-> getTranspilerId(filename), code |-> code,
             retainLines |-> FALSE, variant |-> "Preview", instance |-> "this"]>>
     ELSE <<>>)

RECURSIVE MountRequests(_)
MountRequests(filenames) ==
  IF filenames = <<>> THEN <<>>
  ELSE Requests(Head(filenames), props.files[Head(filenames)])
         \o MountRequests(Tail(filenames))

componentDidMount ==
  /\ ~mounted
  /\ listening
  /\ mounted' = TRUE
  /\ codeCache' = props.files
  /\ inflight' = inflight \o MountRequests(props.keys)
  /\ last' = NoEvent
  /\ UNCHANGED <<props, listening, compilerError, runtimeError, showDetails, activeTab,
                 transpilerCache, playerCache, sandbox, thrown>>
  /\ UNCHANGED <<codecVars, peer>>

componentWillUnmountKeepsListener ==
  /\ mounted
  /\ mounted' = FALSE
  /\ last' = NoEvent
  /\ UNCHANGED <<props, listening, compilerError, runtimeError, showDetails, activeTab,
                 transpilerCache, codeCache, playerCache, inflight, sandbox, thrown>>
  /\ UNCHANGED <<codecVars, peer>>

\* componentWillUnmount()
componentWillUnmount ==
  /\ mounted
  /\ mounted' = FALSE
  /\ listening' = FALSE
  /\ last' = NoEvent
  /\ UNCHANGED <<props, compilerError, runtimeError, showDetails, activeTab,
                 transpilerCache, codeCache, playerCache, inflight, sandbox, thrown>>
  /\ UNCHANGED <<codecVars, peer>>

\* runApplication, called by a handler whose event so far is event:
\* player.runApplication(playerCache, entry); this.refs.player is undefined
\* without a mounted player pane
runApplication(event) ==
  IF playerVisible /\ mounted
    THEN /\ last' = [event EXCEPT !.ran = TRUE, !.compiledMap = playerCache',
                                  !.entry = props.entry]
         /\ sandbox' = "requested"
         /\ UNCHANGED thrown
    ELSE /\ last' = event
         /\ thrown' = TRUE
         /\ UNCHANGED sandbox

updateStatusHidesDetails(type, error) ==
  CASE type = "code" ->
         /\ compilerError' = Null
         /\ showDetails' = FALSE
    [] type = "error" ->
         /\ compilerError' = getErrorDetails(error.message)
         /\ showDetails' = FALSE
    [] OTHER -> UNCHANGED <<compilerError, showDetails>>

\* updateStatus(type, error)
updateStatus(type, error) ==
  CASE type = "code" ->
         /\ compilerError' = Null
         /\ showDetails' = FALSE
    [] type = "error" ->
         /\ compilerError' = getErrorDetails(error.message)
         /\ UNCHANGED showDetails
    [] OTHER -> UNCHANGED <<compilerError, showDetails>>

\* Object.keys(files).every(filename => playerCache[filename])
everyFileTransformed(cache) == \A filename \in DOMAIN props.files : Truthy(cache, filename)

\* onBabelWorkerMessage({data}); request is the message the worker answers
onBabelWorkerMessage(request, data) ==
  /\ updateStatus(data.type, data.error)
  /\ IF data.type = "code"
       THEN IF isTranspilerId(data.filename)
              THEN /\ transpilerCache' = SetProperty(transpilerCache, data.filename, data.code)
                   /\ last' = Event("onBabelWorkerMessage", request)
                   /\ UNCHANGED <<playerCache, sandbox, thrown>>
              ELSE /\ playerCache' = SetProperty(playerCache, data.filename, data.code)
                   /\ UNCHANGED transpilerCache
                   /\ IF everyFileTransformed(playerCache')
                        THEN runApplication(Event("onBabelWorkerMessage", request))
                        ELSE /\ last' = Event("onBabelWorkerMessage", request)
                             /\ UNCHANGED <<sandbox, thrown>>
       ELSE /\ last' = Event("onBabelWorkerMessage", request)
            /\ UNCHANGED <<transpilerCache, playerCache, sandbox, thrown>>

WorkerRespondClearsRuntimeError ==
  \E i \in 1..Len(inflight) :
    /\ inflight' = RemoveAt(inflight, i)
    /\ IF listening
         THEN /\ onBabelWorkerMessage(inflight[i], babelTransform(inflight[i]))
              /\ runtimeError' = IF babelTransform(inflight[i]).type = "code"
                                   THEN Null ELSE runtimeError
         ELSE /\ last' = Event("dropped", inflight[i])
              /\ UNCHANGED <<compilerError, showDetails, transpilerCache, playerCache,
                             sandbox, thrown, runtimeError>>
    /\ UNCHANGED <<props, listening, mounted, activeTab, codeCache>>
    /\ peer' = PeerHears(peer, babelTransform(inflight[i]))
    /\ UNCHANGED codecVars

\* The worker answers one of its unanswered requests, in any order; the reply
\* reaches the component while its listener is registered.
WorkerRespond ==
  \E i \in 1..Len(inflight) :
    /\ inflight' = RemoveAt(inflight, i)
    /\ IF listening
         THEN onBabelWorkerMessage(inflight[i], babelTransform(inflight[i]))
         ELSE /\ last' = Event("dropped", inflight[i])
              /\ UNCHANGED <<compilerError, showDetails, transpilerCache, playerCache,
                             sandbox, thrown>>
    /\ UNCHANGED <<props, listening, mounted, runtimeError, activeTab, codeCache>>
    /\ peer' = PeerHears(peer, babelTransform(inflight[i]))
    /\ UNCHANGED codecVars

\* A run requested from outside: runApplication()
RunRequested ==
  /\ mounted
  /\ playerCache' = playerCache
  /\ runApplication(Event("runApplication", NoRequest))
  /\ UNCHANGED <<props, listening, mounted, compilerError, runtimeError, showDetails,
                 activeTab, transpilerCache, codeCache, inflight>>
  /\ UNCHANGED <<codecVars, peer>>

onCodeChangeInvalidates(code) ==
  /\ mounted
  /\ editorVisible
  /\ Len(inflight) + Len(Requests(activeTab, code)) <= MaxInFlight
  /\ inflight' = inflight \o Requests(activeTab, code)
  /\ codeCache' = SetProperty(codeCache, activeTab, code)
  /\ playerCache' = [k \in DOMAIN playerCache \ {activeTab} |-> playerCache[k]]
  /\ last' = NoEvent
  /\ UNCHANGED <<props, listening, mounted, compilerError, runtimeError, showDetails,
                 activeTab, transpilerCache, sandbox, thrown>>
  /\ UNCHANGED <<codecVars, peer>>

onCodeChangeClearsError(code) ==
  /\ mounted
  /\ editorVisible
  /\ Len(inflight) + Len(Requests(activeTab, code)) <= MaxInFlight
  /\ inflight' = inflight \o Requests(activeTab, code)
  /\ codeCache' = SetProperty(codeCache, activeTab, code)
  /\ compilerError' = Null
  /\ last' = NoEvent
  /\ UNCHANGED <<props, listening, mounted, runtimeError, showDetails,
                 activeTab, transpilerCache, playerCache, sandbox,
                 thrown>>
  /\ UNCHANGED <<codecVars, peer>>

\* onCodeChange(code)
onCodeChange(code) ==
  /\ mounted
  /\ editorVisible
  /\ Len(inflight) + Len(Requests(activeTab, code)) <= MaxInFlight
  /\ inflight' = inflight \o Requests(activeTab, code)
  /\ codeCache' = SetProperty(codeCache, activeTab, code)
  /\ last' = NoEvent
  /\ UNCHANGED <<props, listening, mounted, compilerError, runtimeError, showDetails,
                 activeTab, transpilerCache, playerCache, sandbox,
                 thrown>>
  /\ UNCHANGED <<codecVars, peer>>

\* onToggleDetails(showDetails)
onToggleDetails(value) ==
  /\ mounted
  /\ editorVisible
  /\ showDetails' = value
  /\ last' = NoEvent
  /\ UNCHANGED <<props, listening, mounted, compilerError, runtimeError, activeTab,
                 transpilerCache, codeCache, playerCache, inflight, sandbox, thrown>>
  /\ UNCHANGED <<codecVars, peer>>

\* onClickTab(tab): Tabs are rendered for more than one file, one tab per filename
onClickTab(tab) ==
  /\ mounted
  /\ editorVisible
  /\ Len(props.keys) > 1
  /\ activeTab' = tab
  /\ last' = NoEvent
  /\ UNCHANGED <<props, listening, mounted, compilerError, runtimeError, showDetails,
                 transpilerCache, codeCache, playerCache, inflight, sandbox, thrown>>
  /\ UNCHANGED <<codecVars, peer>>

\* onPlayerRun: the player reports that the run it was asked for has started
onPlayerRun ==
  /\ mounted
  /\ sandbox = "requested"
  /\ sandbox' = "running"
  /\ runtimeError' = Null
  /\ last' = NoEvent
  /\ UNCHANGED <<props, listening, mounted, compilerError, showDetails, activeTab,
                 transpilerCache, codeCache, playerCache, inflight,
                 thrown>>
  /\ UNCHANGED <<codecVars, peer>>

\* onPlayerError(message): the running program failed
onPlayerError(message) ==
  /\ mounted
  /\ sandbox = "running"
  /\ runtimeError' = getErrorDetails(message)
  /\ last' = NoEvent
  /\ UNCHANGED <<props, listening, mounted, compilerError, showDetails, activeTab,
                 transpilerCache, codeCache, playerCache, inflight, sandbox, thrown>>
  /\ UNCHANGED <<codecVars, peer>>

Edit == \E code \in EditedTexts : onCodeChange(code)
ToggleDetails == \E value \in BOOLEAN : onToggleDetails(value)
ClickTab == \E tab \in DOMAIN props.files : onClickTab(tab)
PlayerError == onPlayerError("RuntimeError")

Next ==
  \/ componentDidMount
  \/ componentWillUnmount
  \/ WorkerRespond
  \/ RunRequested
  \/ Edit
  \/ ToggleDetails
  \/ ClickTab
  \/ onPlayerRun
  \/ PlayerError

Spec == Init /\ [][Next]_vars

(***************************************************************************)
(* Two components on one page                                              *)
(***************************************************************************)
\* The props of the first component when a second one is on the page.
PairedConfigurations ==
  { [defaultProps EXCEPT !.files = (AJs :> "v1"), !.keys = <<AJs>>, !.entry = AJs,
                         !.initialTab = AJs, !.panes = {"editor", "player"}],
    [defaultProps EXCEPT !.files = (AJs :> "v1" @@ BJs :> "v1"), !.keys = <<AJs, BJs>>,
                         !.entry = AJs, !.initialTab = AJs, !.panes = {"editor"}] }

InitTwo ==
  /\ \E p \in PairedConfigurations : constructor(p)
  /\ peer = PeerConstructed
  /\ name = <<>>
  /\ key = <<>>
  /\ decoded = <<>>
  /\ phase = "name"

\* The second component's componentDidMount: it posts its files' requests
PeerComponentDidMount ==
  /\ peer.listening
  /\ ~peer.mounted
  /\ peer' = [peer EXCEPT !.mounted = TRUE, !.ran = FALSE]
  /\ inflight' = inflight \o
       <<[filename |-> AJs, code |-> PeerProps.files[AJs], retainLines |-> TRUE,
          variant |-> "Execution", instance |-> "peer"]>>
  /\ last' = NoEvent
  /\ UNCHANGED <<props, listening, mounted, compilerError, runtimeError, showDetails,
                 activeTab, transpilerCache, codeCache, playerCache, sandbox, thrown>>
  /\ UNCHANGED codecVars

NextTwo == Next \/ PeerComponentDidMount

SpecTwo == InitTwo /\ [][NextTwo]_vars

(***************************************************************************)
(* A worker that answers the requests of one compile key in posting order  *)
(***************************************************************************)
\* Two requests are for the same compile key: same variant, same filename.
SameCompileKey(r1, r2) == r1.variant = r2.variant /\ r1.filename = r2.filename

\* The worker answers a request that no earlier unanswered request of the same
\* compile key precedes; the component handles the reply as in WorkerRespond.
WorkerRespondInOrder ==
  \E i \in 1..Len(inflight) :
    /\ \A j \in 1..(i - 1) : ~SameCompileKey(inflight[j], inflight[i])
    /\ inflight' = RemoveAt(inflight, i)
    /\ IF listening
         THEN onBabelWorkerMessage(inflight[i], babelTransform(inflight[i]))
         ELSE /\ last' = Event("dropped", inflight[i])
              /\ UNCHANGED <<compilerError, showDetails, transpilerCache, playerCache,
                             sandbox, thrown>>
    /\ UNCHANGED <<props, listening, mounted, runtimeError, activeTab, codeCache>>
    /\ peer' = PeerHears(peer, babelTransform(inflight[i]))
    /\ UNCHANGED codecVars

NextInOrder ==
  \/ componentDidMount
  \/ componentWillUnmount
  \/ WorkerRespondInOrder
  \/ RunRequested
  \/ Edit
  \/ ToggleDetails
  \/ ClickTab
  \/ onPlayerRun
  \/ PlayerError

SpecInOrder == Init /\ [][NextInOrder]_vars

(***************************************************************************)
(* The filename encoding on its own: a filename is encoded as a transpiler *)
(* id and the id is decoded again.                                         *)
(***************************************************************************)
Alphabet == {"a", "@", "-"}

RECURSIVE Strings(_)
Strings(n) ==
  IF n = 0 THEN {<<>>}
  ELSE Strings(n - 1) \cup {s \o <<c>> : s \in Strings(n - 1), c \in Alphabet}

\* "@babel": the marker without its last character
PartialPrefix == SubSeq(transpilerPrefix, 1, Len(transpilerPrefix) - 1)

Names ==
  LET base == Strings(MaxNameLen)
      short == Strings(1)
  IN  base
        \cup {transpilerPrefix \o s : s \in base}
        \cup {PartialPrefix \o s : s \in base}
        \cup {s \o transpilerPrefix \o t : s \in short \ {<<>>}, t \in short}
        \cup {AJs, BJs, IndexJs, Constructor}

InitCodec ==
  /\ constructor(defaultProps)
  /\ peer = NoPeer
  /\ name \in Names
  /\ key = <<>>
  /\ decoded = <<>>
  /\ phase = "name"

Encode ==
  /\ phase = "name"
  /\ key' = getTranspilerId(name)
  /\ phase' = "encoded"
  /\ UNCHANGED <<name, decoded>>
  /\ UNCHANGED workspaceVars

Decode ==
  /\ phase = "encoded"
  /\ decoded' = stripTranspilerPrefix(key)
  /\ phase' = "decoded"
  /\ UNCHANGED <<name, key>>
  /\ UNCHANGED workspaceVars

NextCodec == Encode \/ Decode

SpecCodec == InitCodec /\ [][NextCodec]_vars

(***************************************************************************)
(* Properties                                                              *)
(***************************************************************************)
Filenames == DOMAIN props.files

\* The latest handler was onBabelWorkerMessage.
Handled(e) == e.op = "onBabelWorkerMessage"

\* ... of a response the component treated as the player's (Execution variant).
HandledForPlayer(e) ==
  Handled(e) /\ e.response.type = "code" /\ ~isTranspilerId(e.response.filename)

\* Every declared file has an entry in the player cache.
AllCached(cache) == Filenames \subseteq DOMAIN cache

\* C1: handling a successful Execution-variant response runs the player if and
\* only if, after the response is written, every declared filename has an entry
\* in the Execution cache (whatever the compiled code, the empty string too).
C1_ReadinessGate ==
  HandledForPlayer(last) => (last.ran <=> AllCached(playerCache))

\* C2: whenever the player is run, the keys of the compiled map it is given are
\* the declared filenames and never more: the map has no key outside the
\* declared file set.
C2_RunMapKeysAreTheFiles ==
  last.ran => DOMAIN last.compiledMap \subseteq Filenames

\* C3: a run requested from outside while some declared filename has no
\* Execution cache entry does not run the player.
C3_ManualRunIsGated ==
  (last.op = "runApplication" /\ ~AllCached(playerCache)) => ~last.ran

\* C4: every run of the player is given a compiled map that holds code for the
\* entry filename and for every declared filename (stated for the runs that the
\* handling of a response triggers).
C4_RunMapHoldsEntryAndFiles ==
  (Handled(last) /\ last.ran) =>
    /\ last.entry \in DOMAIN last.compiledMap
    /\ Filenames \subseteq DOMAIN last.compiledMap

\* C5: a response to a Preview-variant request, success or failure, leaves the
\* Execution cache and the readiness of the file set as they were and runs
\* nothing; a success writes its code under its key in the Preview cache.
C5_PreviewResponseFrame ==
  [][(Handled(last') /\ ~last'.request.retainLines) =>
       /\ playerCache' = playerCache
       /\ everyFileTransformed(playerCache') <=> everyFileTransformed(playerCache)
       /\ ~last'.ran
       /\ sandbox' = sandbox
       /\ codeCache' = codeCache
       /\ IF last'.response.type = "code"
            THEN transpilerCache' =
                   [k \in DOMAIN transpilerCache \cup {last'.request.filename} |->
                      IF k = last'.request.filename THEN last'.response.code
                      ELSE transpilerCache[k]]
            ELSE transpilerCache' = transpilerCache]_vars

\* A Preview success arrived while every file was transformed, and ran nothing.
C5_Witness ==
  /\ Handled(last)
  /\ ~last.request.retainLines
  /\ last.response.type = "code"
  /\ last.request.filename \in DOMAIN transpilerCache
  /\ everyFileTransformed(playerCache)
  /\ ~last.ran

\* C6: once every declared file has an Execution cache entry, each later
\* successful Execution response for a declared file runs the player again.
C6_RepeatTrigger ==
  [][(/\ AllCached(playerCache)
      /\ HandledForPlayer(last')
      /\ last'.request.retainLines
      /\ last'.response.filename \in Filenames) => last'.ran]_vars

\* C7 as stated: a failed compile response sets compilerError and sets
\* showDetails to false; a successful one clears compilerError and leaves
\* showDetails false.
C7_FailureHidesDetails ==
  /\ (Handled(last) /\ last.response.type = "error") =>
       (compilerError # Null /\ showDetails = FALSE)
  /\ (Handled(last) /\ last.response.type = "code") =>
       (compilerError = Null /\ showDetails = FALSE)

\* C7 amended: a failed compile response sets compilerError and leaves
\* showDetails as it was; a successful response of either variant, for any
\* file, clears compilerError and sets showDetails to false.
C7_FailureKeepsDetails ==
  [][/\ (Handled(last') /\ last'.response.type = "error") =>
          (compilerError' # Null /\ showDetails' = showDetails)
     /\ (Handled(last') /\ last'.response.type = "code") =>
          (compilerError' = Null /\ showDetails' = FALSE)]_vars

\* A failure arrived while the details were shown, and they still are.
C7_Witness ==
  /\ Handled(last)
  /\ last.response.type = "error"
  /\ compilerError # Null
  /\ showDetails = TRUE

\* The cache a successful response is written to, read at the response's key.
CachedFor(e) ==
  IF isTranspilerId(e.response.filename)
    THEN transpilerCache[e.response.filename]
    ELSE playerCache[e.response.filename]

\* A request for the same key as r is still unanswered.
Pending(r) == \E i \in 1..Len(inflight) : inflight[i].filename = r.filename

\* C8: a successful response overwrites the cache entry of its key whatever the
\* entry held: of two requests for one key answered in reverse order, the code
\* of the response delivered second (the older request's) is what the cache holds.
C8_LastWriterWins ==
  (Handled(last) /\ last.response.type = "code") =>
    /\ last.response.filename \in
         DOMAIN (IF isTranspilerId(last.response.filename)
                   THEN transpilerCache ELSE playerCache)
    /\ CachedFor(last) = last.response.code

\* The response handled last answers a request older than the latest edit of
\* its file, whose own request has been answered before: the cache holds the
\* older request's code.
C8_Witness ==
  /\ Handled(last)
  /\ last.response.type = "code"
  /\ last.request.retainLines
  /\ last.request.filename \in Filenames
  /\ ~Pending(last.request)
  /\ codeCache[last.request.filename] = "v2"
  /\ last.request.code = "v1"
  /\ playerCache[last.request.filename] = <<"v1", "retainLines">>

\* The filename contains the reserved marker somewhere.
ContainsMarker(filename) == indexOf(filename, transpilerPrefix) >= 0

\* C9: for a filename that does not contain the marker, decoding its transpiler
\* id gives the filename back, the id is recognised as a transpiler id and the
\* filename itself is not.
C9_RoundTrip ==
  ~ContainsMarker(name) =>
    /\ phase \in {"encoded", "decoded"} => (isTranspilerId(key) /\ ~isTranspilerId(name))
    /\ phase = "decoded" => decoded = name

\* A filename of several characters without the marker went round.
C9_Witness ==
  /\ phase = "decoded"
  /\ ~ContainsMarker(name)
  /\ Len(name) >= MaxNameLen
  /\ decoded = name
  /\ key # name

\* C10: a response to a declared file's Execution request is handled as the
\* player's and written to the Execution cache, one to its Preview request is
\* handled as the transpiler's, and no Preview request on the wire bears the
\* filename of an Execution request.
C10_VariantsNeverConfused ==
  /\ (Handled(last) /\ last.response.type = "code") =>
       (last.request.retainLines <=> ~isTranspilerId(last.response.filename))
  /\ (Handled(last) /\ last.response.type = "code" /\ last.request.retainLines) =>
       last.request.filename \in DOMAIN playerCache
  /\ \A i, j \in 1..Len(inflight) :
       inflight[i].filename = inflight[j].filename =>
         inflight[i].retainLines = inflight[j].retainLines

\* C11: a response whose decoded filename is no declared filename is dropped:
\* its key enters neither cache, it runs nothing and no handler fails.
C11_UnknownFileIsDropped ==
  (Handled(last) /\ stripTranspilerPrefix(last.response.filename) \notin Filenames) =>
    /\ last.response.filename \notin DOMAIN playerCache
    /\ last.response.filename \notin DOMAIN transpilerCache
    /\ ~last.ran
    /\ ~thrown

\* C12: every request posted, at mount or on an edit, is the player's only with
\* the player pane enabled and the transpiler's only with the transpiler pane
\* enabled, names a declared file or the tab edited, and carries
\* retainLines = true if and only if it is the player's (Execution variant).
C12_RequestShape ==
  \A i \in 1..Len(inflight) :
    LET r == inflight[i]
        edited == Filenames \cup {props.initialTab}
    IN  /\ r.variant \in {"Execution", "Preview"}
        /\ r.variant = "Execution" => (playerVisible /\ r.filename \in edited)
        /\ r.variant = "Preview" =>
             (transpilerVisible /\ r.filename \in {getTranspilerId(f) : f \in edited})
        /\ r.retainLines <=> r.variant = "Execution"

\* An edit posted one request of each variant; both are unanswered.
C12_Witness ==
  /\ Len(inflight) = 2
  /\ inflight[1].variant = "Execution" /\ inflight[1].retainLines
  /\ inflight[2].variant = "Preview" /\ ~inflight[2].retainLines
  /\ inflight[1].code = "v2" /\ inflight[2].code = "v2"
  /\ inflight[2].filename = getTranspilerId(activeTab)

\* C13: compilerError goes from set to none only while a successful compile
\* response is handled; no edit, tab switch, details toggle, run start, runtime
\* failure or failed response clears it.
C13_OnlySuccessClearsCompilerError ==
  [][(compilerError # Null /\ compilerError' = Null) =>
       (Handled(last') /\ last'.response.type = "code")]_vars

\* With a compiler error shown, the file was edited again and a run reported a
\* runtime failure; the compiler error is still set.
C13_Witness ==
  /\ compilerError # Null
  /\ runtimeError # Null
  /\ showDetails
  /\ Len(inflight) > 0
  /\ ~Handled(last)

\* C14: runtimeError goes from set to none only when the player reports a run
\* start (onPlayerRun); handling a compile response of either variant and
\* outcome, an edit and a details toggle leave runtimeError as it was.
C14_OnlyRunStartClearsRuntimeError ==
  [][/\ (runtimeError # Null /\ runtimeError' = Null) =>
          (sandbox = "requested" /\ sandbox' = "running")
     /\ (\/ Handled(last')
         \/ inflight' # inflight
         \/ codeCache' # codeCache
         \/ showDetails' # showDetails) => runtimeError' = runtimeError]_vars

\* A successful compile response was handled and triggered a run while a
\* runtime error was set; the runtime error is still set.
C14_Witness ==
  /\ Handled(last)
  /\ last.response.type = "code"
  /\ last.ran
  /\ sandbox = "requested"
  /\ runtimeError # Null

\* C15: handling a failed compile response changes compilerError only:
\* showDetails and runtimeError keep the values they had before the response.
C15_FailureFrame ==
  [][(Handled(last') /\ last'.response.type = "error") =>
       /\ compilerError' = getErrorDetails(last'.response.error.message)
       /\ showDetails' = showDetails
       /\ runtimeError' = runtimeError]_vars

\* A failed response was handled with the details shown and a runtime error
\* set; both are as they were.
C15_Witness ==
  /\ Handled(last)
  /\ last.response.type = "error"
  /\ showDetails
  /\ runtimeError # Null
  /\ compilerError = getErrorDetails("SyntaxError")

\* C16: an entry of either cache is created or overwritten only while a
\* successful compile response is handled, and none is ever deleted: a failed
\* response and an edit leave both caches as they were.
C16_CacheWrittenOnlyBySuccess ==
  [][/\ (playerCache' # playerCache \/ transpilerCache' # transpilerCache) =>
          (Handled(last') /\ last'.response.type = "code")
     /\ DOMAIN playerCache \subseteq DOMAIN playerCache'
     /\ DOMAIN transpilerCache \subseteq DOMAIN transpilerCache']_vars

\* The file was edited to a text that does not compile and its failed response
\* was handled: the entry of the earlier successful compile is still in place.
C16_Witness ==
  /\ Handled(last)
  /\ last.response.type = "error"
  /\ last.request.variant = "Execution"
  /\ last.request.filename \in DOMAIN playerCache
  /\ playerCache[last.request.filename] = <<"v1", "retainLines">>
  /\ last.request.filename \in DOMAIN codeCache
  /\ codeCache[last.request.filename] = "bad"

\* C17: once mounted, the filenames that hold a source text are exactly the
\* declared filenames, whatever the file set and the initial tab, and an edit
\* replaces the text of the active filename only.
C17_SourceStoreIsTheFileSet ==
  [][/\ mounted' => DOMAIN codeCache' = Filenames
     /\ (mounted /\ codeCache' # codeCache) =>
          \A f \in DOMAIN codeCache \ {activeTab} :
            f \in DOMAIN codeCache' /\ codeCache'[f] = codeCache[f]]_vars

\* C18: the component listens to the worker from construction to teardown, and
\* a response delivered once it is torn down (its request was in flight at
\* teardown) changes no cache and no error state, runs nothing and fails nothing.
C18_NoDeliveryAfterTeardown ==
  [][/\ mounted' => listening'
     /\ (listening /\ ~listening') => (mounted /\ ~mounted')
     /\ ~mounted =>
          /\ playerCache' = playerCache
          /\ transpilerCache' = transpilerCache
          /\ compilerError' = compilerError
          /\ runtimeError' = runtimeError
          /\ showDetails' = showDetails
          /\ ~last'.ran
          /\ thrown' = thrown]_vars

\* A successful response, whose request was in flight at teardown, was
\* delivered afterwards; its file has no cache entry.
C18_Witness ==
  /\ ~mounted
  /\ ~listening
  /\ last.op = "dropped"
  /\ last.response.type = "code"
  /\ last.request.variant = "Execution"
  /\ last.request.filename \notin DOMAIN playerCache
  /\ compilerError # Null

\* The second component's caches and status.
PeerState(p) == <<p.playerCache, p.transpilerCache, p.compilerError, p.showDetails>>

\* C19: with two components on the one worker, a response to a request of one
\* component changes the caches and error state of that component only and runs
\* only its player, also when both declare the same filename.
C19_InstanceIsolation ==
  [][/\ (last'.op \in {"onBabelWorkerMessage", "dropped"}
           /\ last'.request.instance = "this") =>
          (PeerState(peer') = PeerState(peer) /\ ~peer'.ran /\ peer'.thrown = peer.thrown)
     /\ (last'.op \in {"onBabelWorkerMessage", "dropped"}
           /\ last'.request.instance = "peer") =>
          /\ playerCache' = playerCache
          /\ transpilerCache' = transpilerCache
          /\ compilerError' = compilerError
          /\ showDetails' = showDetails
          /\ ~last'.ran]_vars

\* The compiled output of the current source text of file f in a variant.
CompiledNow(f, retainLines) ==
  babelTransform([filename |-> f, code |-> codeCache[f], retainLines |-> retainLines,
                  variant |-> "none", instance |-> "none"]).code

\* The current text of f compiles, so the latest response for its keys, once
\* nothing is in flight, was a success.
Compiles(f) == codeCache[f] # "bad"

\* C20: when the requests of each compile key are answered in posting order,
\* nothing is in flight and the latest response for a key was a success, the
\* cache entry of the key is the compiled output of the file's current source
\* text, and a run at that point is given the code of the latest edits.
C20_QuiescentConsistency ==
  (mounted /\ inflight = <<>>) =>
    /\ \A f \in DOMAIN codeCache :
         /\ (playerVisible /\ Compiles(f)) =>
              /\ f \in DOMAIN playerCache
              /\ playerCache[f] = CompiledNow(f, TRUE)
         /\ (transpilerVisible /\ Compiles(f)) =>
              /\ getTranspilerId(f) \in DOMAIN transpilerCache
              /\ transpilerCache[getTranspilerId(f)] = CompiledNow(f, FALSE)
    /\ last.ran =>
         \A f \in Filenames :
           Compiles(f) => /\ f \in DOMAIN last.compiledMap
                          /\ last.compiledMap[f] = CompiledNow(f, TRUE)

====
